---- MODULE Spec2Model ----
(***************************************************************************)
(* AthenaQuery (src/src/index.tsx): one instance, its processQuery        *)
(* invocations, the Athena service that answers its commands and the      *)
(* batch consumer it calls.  Every await of the code is a suspension       *)
(* point: the action before it sends the command (or calls the consumer), *)
(* the action after it is the continuation that runs when the answer      *)
(* arrives.  The service's answers and the consumer's outcome are inputs.  *)
(***************************************************************************)
EXTENDS Integers, Sequences, FiniteSets

\* ------------------------------------------------------------------ values

\* JavaScript's undefined, for the string-valued fields (handle, token,
\* state, VarCharValue).
Undefined == "<undefined>"

\* The processQuery invocations made on the one instance.
Invocations == {"first", "second"}

\* Most non-terminal states one invocation observes before a terminal one.
MaxPolls == 1
\* Most pages of one result set.
MaxPages == 2
\* Most cells of a row.
MaxCols == 2
\* Most data rows of a page (the first page has its header row besides).
MaxRows == 1

\* AthenaQueryInput.sleepMs as the caller gives it.
SleepInputs ==
    {[given |-> FALSE, ms |-> 0], [given |-> TRUE, ms |-> 0], [given |-> TRUE, ms |-> 1]}

\* StartQueryExecutionCommandOutput.QueryExecutionId
Handles == {Undefined, "", "q1"}
\* QueryExecution.Status.State
States == {"QUEUED", "RUNNING", "SUCCEEDED", "FAILED", "CANCELLED", "OTHER", Undefined}
\* GetQueryResultsCommandOutput.NextToken
Tokens == {Undefined, "t1", "t2"}
\* $metadata.httpStatusCode
HttpCodes == {200, 404, 500}

\* Datum.VarCharValue of a header cell and of a data cell.
HeaderCells == {Undefined, "", "a"}
DataCells == {Undefined, "x"}

SeqsUpTo(S, n) == UNION {[1..k -> S] : k \in 0..n}

\* A Row: Data is absent (hasData = FALSE) or a sequence of cells.
RowsOf(Cells, n) ==
    {[hasData |-> FALSE, Data |-> <<>>]} \cup
    {[hasData |-> TRUE, Data |-> d] : d \in SeqsUpTo(Cells, n)}

\* ResultSet.Rows of a first page: absent, empty, or a header row and data rows.
FirstPageRows(cols, rows) ==
    {[hasRows |-> FALSE, Rows |-> <<>>], [hasRows |-> TRUE, Rows |-> <<>>]} \cup
    {[hasRows |-> TRUE, Rows |-> <<h>> \o d] :
        h \in RowsOf(HeaderCells, cols), d \in SeqsUpTo(RowsOf(DataCells, cols), rows)}

\* ResultSet.Rows of a later page: absent or data rows.
LaterPageRows(cols, rows) ==
    {[hasRows |-> FALSE, Rows |-> <<>>]} \cup
    {[hasRows |-> TRUE, Rows |-> d] : d \in SeqsUpTo(RowsOf(DataCells, cols), rows)}

FailedPage == [hasRows |-> FALSE, Rows |-> <<>>]

\* GetQueryResultsCommandOutput, the fields the code reads.
Response(code, page, token) ==
    [httpStatusCode |-> code, hasRows |-> page.hasRows, Rows |-> page.Rows, NextToken |-> token]

\* The answers to a GetQueryResults command, all pages within the bounds.
AllResponses(first) ==
    {Response(200, pg, t) :
        pg \in (IF first THEN FirstPageRows(MaxCols, MaxRows) ELSE LaterPageRows(MaxCols, MaxRows)),
        t \in Tokens}
    \cup {Response(code, FailedPage, Undefined) : code \in HttpCodes \ {200}}

Row(d) == [hasData |-> TRUE, Data |-> d]

\* A few answers, for the runs that are not about the pages.
SampleStates == {"QUEUED", "SUCCEEDED", "FAILED"}
SampleResponses(first) ==
    {Response(200, [hasRows |-> TRUE,
                    Rows |-> IF first THEN <<Row(<<"a">>), Row(<<"x">>)>> ELSE <<Row(<<"x">>)>>], t) :
        t \in {Undefined, "t1"}}
    \cup {Response(code, FailedPage, Undefined) : code \in HttpCodes \ {200}}

NoResponse == Response(0, FailedPage, Undefined)

\* ------------------------------------------------------- pure functions

\* constructor: sleepMs defaults to 500.
DefaultSleepMs == 500
SleepMsOf_Truthy(input) == IF input.given /\ input.ms # 0 THEN input.ms ELSE DefaultSleepMs
SleepMsOf(input) == IF input.given THEN input.ms ELSE DefaultSleepMs

\* isTerminalState
isTerminalState_QueuedOnly(state) == state # "QUEUED"
isTerminalState_Never(state) == FALSE
isTerminalState(state) == state # "QUEUED" /\ state # "RUNNING"

StartQueryThrows_Never(id) == FALSE
StartQueryThrows_Falsy(id) == id = Undefined \/ id = ""
\* startQuery's check of the handle it has just stored.
StartQueryThrows(id) == id = Undefined

StateThrows_FailedOnly(state) == state = "FAILED"
StateThrows_Never(state) == FALSE
\* waitForSuccessfulResult's check of the terminal state.
StateThrows(state) == state # "SUCCEEDED"

MorePages_FirstTokenOnly(token) == token = "t1"
\* getResultsInBatches' loop condition.
MorePages(token) == token # Undefined

ResultsThrows_Never(code) == FALSE
ResultsThrows_ServerErrors(code) == code >= 500
\* getResults' check of the answer's status.
ResultsThrows(code) == code # 200

\* The header cell at index i (0-based) as a field name.
Digits == <<"0", "1", "2", "3", "4", "5", "6", "7", "8", "9">>
HeaderName(cell, i) == IF cell = Undefined THEN "col" \o Digits[i + 1] ELSE cell

\* rows?.[0]?.Data?.map(...), [] when any link is absent.
HeaderFieldNames(resp) ==
    IF resp.hasRows /\ Len(resp.Rows) > 0 /\ resp.Rows[1].hasData
    THEN [i \in 1..Len(resp.Rows[1].Data) |-> HeaderName(resp.Rows[1].Data[i], i - 1)]
    ELSE <<>>

\* fieldNames[index] (1-based here), undefined past the end.
FieldNameAt(fieldNames, i) == IF i <= Len(fieldNames) THEN fieldNames[i] ELSE Undefined

NoFieldName_EmptyOnly(fieldNames, i) == i <= Len(fieldNames) /\ fieldNames[i] = ""
\* fromRowsToJsonValues' test of the field name at a cell's index
\* (fieldNames is 1-based here): absent or empty.
NoFieldName(fieldNames, i) == i > Len(fieldNames) \/ fieldNames[i] = ""

\* result[fieldName] = value
SetField(rec, name, value) == {kv \in rec : kv[1] # name} \cup {<<name, value>>}

\* One row's forEach, cells 1..n stored.
RECURSIVE RowRecord(_, _, _)
RowRecord(data, fieldNames, n) ==
    IF n = 0 THEN {}
    ELSE SetField(RowRecord(data, fieldNames, n - 1), FieldNameAt(fieldNames, n), data[n])

RowThrows(row, fieldNames) ==
    row.hasData /\ \E i \in 1..Len(row.Data) : NoFieldName(fieldNames, i)

\* fromRowsToJsonValues
fromRowsToJsonValues(rows, fieldNames) ==
    IF \E k \in 1..Len(rows) : RowThrows(rows[k], fieldNames)
    THEN [threw |-> TRUE, Data |-> <<>>]
    ELSE [threw |-> FALSE,
          Data |-> [k \in 1..Len(rows) |->
                      IF rows[k].hasData
                      THEN RowRecord(rows[k].Data, fieldNames, Len(rows[k].Data))
                      ELSE {}]]

DataRows_KeepHeader(resp, isFirstQuery) == resp.Rows
\* rows?.slice(1)
DataRows(resp, isFirstQuery) ==
    IF isFirstQuery /\ Len(resp.Rows) > 0 THEN Tail(resp.Rows) ELSE resp.Rows

getResults_RequiresResultSet(resp, isFirstQuery, fieldNames) ==
    LET names == IF isFirstQuery THEN HeaderFieldNames(resp) ELSE fieldNames
        conv == IF resp.hasRows
                THEN fromRowsToJsonValues(DataRows(resp, isFirstQuery), names)
                ELSE [threw |-> TRUE, Data |-> <<>>]
    IN  [threw |-> conv.threw, Data |-> conv.Data,
         NextToken |-> resp.NextToken, fieldNames |-> names]
getResults_HeaderOfEveryPage(resp, isFirstQuery, fieldNames) ==
    LET names == HeaderFieldNames(resp)
        conv == IF resp.hasRows
                THEN fromRowsToJsonValues(DataRows(resp, isFirstQuery), names)
                ELSE [threw |-> FALSE, Data |-> <<>>]
    IN  [threw |-> conv.threw, Data |-> conv.Data,
         NextToken |-> resp.NextToken, fieldNames |-> names]
getResults_DerivesHeaderLater(resp, isFirstQuery, fieldNames) ==
    LET names == IF isFirstQuery \/ fieldNames = <<>>
                 THEN HeaderFieldNames(resp) ELSE fieldNames
        conv == IF resp.hasRows
                THEN fromRowsToJsonValues(DataRows(resp, isFirstQuery), names)
                ELSE [threw |-> FALSE, Data |-> <<>>]
    IN  [threw |-> conv.threw, Data |-> conv.Data,
         NextToken |-> resp.NextToken, fieldNames |-> names]
\* getResults after its status check.
getResults(resp, isFirstQuery, fieldNames) ==
    LET names == IF isFirstQuery THEN HeaderFieldNames(resp) ELSE fieldNames
        conv == IF resp.hasRows
                THEN fromRowsToJsonValues(DataRows(resp, isFirstQuery), names)
                ELSE [threw |-> FALSE, Data |-> <<>>]
    IN  [threw |-> conv.threw, Data |-> conv.Data,
         NextToken |-> resp.NextToken, fieldNames |-> names]

\* ------------------------------------------------------------------ state

VARIABLES
    QueryExecutionId,   \* this.QueryExecutionId
    sleepMs,            \* this.sleepMs
    pc,                 \* where each invocation is suspended
    err,                \* the error an invocation failed with
    errState,           \* the state embedded in the 'Unsupported response state' error
    isFirstQuery,       \* getResults' argument of the call in flight
    fieldNames,         \* getResultsInBatches' fieldNames
    Data,               \* the batch handed to the consumer call in flight
    NextToken,          \* getResultsInBatches' NextToken
    began,              \* what the other invocations were doing when this one was called
    gotStart,           \* the StartQueryExecution answer has arrived
    myId,               \* the handle of the invocation's own StartQueryExecution answer
    nStart,             \* StartQueryExecution commands the invocation has sent
    nExec,              \* GetQueryExecution commands the invocation has sent
    nResults,           \* GetQueryResults commands the invocation has sent
    nConsumer,          \* consumer calls the invocation has made
    nSleeps,            \* delays the invocation has scheduled
    cmdId,              \* QueryExecutionId of the invocation's last command
    cmdToken,           \* NextToken of the invocation's last GetQueryResults command
    lastState,          \* the state of the last GetQueryExecution answer
    pageToken,          \* the NextToken of the last GetQueryResults answer
    sleepInput,         \* the sleepMs option the constructor was given
    nPending,           \* QUEUED or RUNNING answers the invocation has received
    timer,              \* the duration of the last delay the invocation scheduled
    outstanding,        \* the operations the invocation has begun and not yet seen end
    lastResp,           \* the GetQueryResults answer being handled, or the one that failed
    rejected,           \* a consumer call the invocation awaited has rejected
    firstPage           \* what the first GetQueryResults answer held

vars == <<QueryExecutionId, sleepMs, pc, err, errState, isFirstQuery, fieldNames, Data,
          NextToken, began, gotStart, myId, nStart, nExec, nResults, nConsumer, nSleeps,
          cmdId, cmdToken, lastState, pageToken, sleepInput, nPending, timer, outstanding,
          lastResp, rejected, firstPage>>

locals == <<isFirstQuery, fieldNames, Data, NextToken>>
counts == <<nStart, nExec, nResults, nConsumer, nSleeps>>

\* What a GetQueryResults answer holds: ResultSet?.Rows absent, empty, or rows.
ShapeOf(resp) ==
    IF ~resp.hasRows THEN "noResultSet"
    ELSE IF Len(resp.Rows) = 0 THEN "noRows"
    ELSE "rows"

NoState == "<none>"
NoTimer == -1

\* What an invocation waits for: a command's answer, a delay, a consumer call.
Kinds == {"start", "exec", "timer", "results", "consumer"}
polling == <<sleepInput, nPending, timer>>

\* A continuation runs: the operation it waited for has ended, and it begins
\* the next one ("none" for neither).
Resume(p, ended, begun) ==
    outstanding' = [outstanding EXCEPT ![p] =
        [k \in Kinds |-> @[k] - (IF k = ended THEN 1 ELSE 0) + (IF k = begun THEN 1 ELSE 0)]]

Finished(p) == pc[p] \in {"done", "failed"}
InFlight(p) == pc[p] \notin {"idle", "done", "failed"}

\* The instance after its constructor, no processQuery called yet.
Init ==
    /\ QueryExecutionId = Undefined
    /\ sleepInput \in SleepInputs
    /\ sleepMs = SleepMsOf(sleepInput)
    /\ nPending = [p \in Invocations |-> 0]
    /\ timer = [p \in Invocations |-> NoTimer]
    /\ outstanding = [p \in Invocations |-> [k \in Kinds |-> 0]]
    /\ pc = [p \in Invocations |-> "idle"]
    /\ err = [p \in Invocations |-> "none"]
    /\ errState = [p \in Invocations |-> NoState]
    /\ isFirstQuery = [p \in Invocations |-> TRUE]
    /\ fieldNames = [p \in Invocations |-> <<>>]
    /\ Data = [p \in Invocations |-> <<>>]
    /\ NextToken = [p \in Invocations |-> Undefined]
    /\ began = [p \in Invocations |-> "notYet"]
    /\ gotStart = [p \in Invocations |-> FALSE]
    /\ myId = [p \in Invocations |-> Undefined]
    /\ nStart = [p \in Invocations |-> 0]
    /\ nExec = [p \in Invocations |-> 0]
    /\ nResults = [p \in Invocations |-> 0]
    /\ nConsumer = [p \in Invocations |-> 0]
    /\ nSleeps = [p \in Invocations |-> 0]
    /\ cmdId = [p \in Invocations |-> Undefined]
    /\ cmdToken = [p \in Invocations |-> Undefined]
    /\ lastState = [p \in Invocations |-> NoState]
    /\ pageToken = [p \in Invocations |-> Undefined]
    /\ lastResp = [p \in Invocations |-> NoResponse]
    /\ rejected = [p \in Invocations |-> FALSE]
    /\ firstPage = [p \in Invocations |-> "notYet"]

\* throw: the invocation's promise rejects.
Throw(p, e) ==
    /\ pc' = [pc EXCEPT ![p] = "failed"]
    /\ err' = [err EXCEPT ![p] = e]

\* athenaClient.send(new GetQueryExecutionCommand({QueryExecutionId: this.QueryExecutionId}))
SendGetQueryExecution(p) ==
    /\ nExec' = [nExec EXCEPT ![p] = @ + 1]
    /\ cmdId' = [cmdId EXCEPT ![p] = QueryExecutionId]
    /\ pc' = [pc EXCEPT ![p] = "awaitState"]

\* athenaClient.send(new GetQueryResultsCommand({QueryExecutionId: this.QueryExecutionId, NextToken}))
SendGetQueryResults(p, token, first) ==
    /\ nResults' = [nResults EXCEPT ![p] = @ + 1]
    /\ cmdId' = [cmdId EXCEPT ![p] = QueryExecutionId]
    /\ cmdToken' = [cmdToken EXCEPT ![p] = token]
    /\ isFirstQuery' = [isFirstQuery EXCEPT ![p] = first]
    /\ pc' = [pc EXCEPT ![p] = "awaitPage"]

\* processQuery is called: the reuse check, then startQuery sends its command.
Invoke(p) ==
    /\ pc[p] = "idle"
    /\ began' = [began EXCEPT ![p] =
                   IF \E q \in Invocations \ {p} : InFlight(q) THEN "overlapping"
                   ELSE IF \E q \in Invocations \ {p} : Finished(q) THEN "afterFinished"
                   ELSE "alone"]
    /\ IF QueryExecutionId # Undefined
       THEN /\ Throw(p, "reuse")
            /\ UNCHANGED <<nStart, outstanding>>
       ELSE /\ nStart' = [nStart EXCEPT ![p] = @ + 1]
            /\ pc' = [pc EXCEPT ![p] = "awaitStart"]
            /\ Resume(p, "none", "start")
            /\ UNCHANGED err
    /\ UNCHANGED polling
    /\ UNCHANGED <<QueryExecutionId, sleepMs, rejected, firstPage, errState, locals, gotStart, myId, nExec,
                   nResults, nConsumer, nSleeps, cmdId, cmdToken, lastState, pageToken, lastResp>>

\* startQuery resumes with the StartQueryExecution answer.
StartResponse(p, id) ==
    /\ pc[p] = "awaitStart"
    /\ QueryExecutionId' = id
    /\ gotStart' = [gotStart EXCEPT ![p] = TRUE]
    /\ myId' = [myId EXCEPT ![p] = id]
    /\ IF StartQueryThrows(id)
       THEN Throw(p, "submission")
       ELSE /\ pc' = [pc EXCEPT ![p] = "afterStart"]
            /\ UNCHANGED err
    /\ Resume(p, "start", "none")
    /\ UNCHANGED polling
    /\ UNCHANGED <<sleepMs, errState, locals, began, counts, cmdId, cmdToken, lastState, pageToken,
                   lastResp, rejected, firstPage>>

\* processQuery resumes after startQuery: its own check of the handle, then
\* waitForSuccessfulResult sends the first status command.
AfterStart(p) ==
    /\ pc[p] = "afterStart"
    /\ IF QueryExecutionId = Undefined
       THEN /\ Throw(p, "expected")
            /\ UNCHANGED <<nExec, cmdId, outstanding>>
       ELSE /\ SendGetQueryExecution(p)
            /\ Resume(p, "none", "exec")
            /\ UNCHANGED err
    /\ UNCHANGED polling
    /\ UNCHANGED <<QueryExecutionId, sleepMs, rejected, firstPage, errState, locals, began, gotStart, myId,
                   nStart, nResults, nConsumer, nSleeps, cmdToken, lastState, pageToken, lastResp>>

\* waitForSuccessfulResult resumes with a GetQueryExecution answer.
StateResponse(p, state) ==
    /\ pc[p] = "awaitState"
    /\ ~isTerminalState(state) => nExec[p] <= MaxPolls
    /\ lastState' = [lastState EXCEPT ![p] = state]
    /\ nPending' = [nPending EXCEPT ![p] = IF state \in {"QUEUED", "RUNNING"} THEN @ + 1 ELSE @]
    /\ IF ~isTerminalState(state)
       THEN IF sleepMs > 0
            THEN /\ pc' = [pc EXCEPT ![p] = "sleeping"]
                 /\ nSleeps' = [nSleeps EXCEPT ![p] = @ + 1]
                 /\ timer' = [timer EXCEPT ![p] = sleepMs]
                 /\ Resume(p, "exec", "timer")
                 /\ UNCHANGED <<err, errState, nExec, cmdId>>
            ELSE /\ SendGetQueryExecution(p)
                 /\ Resume(p, "exec", "exec")
                 /\ UNCHANGED <<err, errState, nSleeps, timer>>
       ELSE IF StateThrows(state)
            THEN /\ Throw(p, "state")
                 /\ errState' = [errState EXCEPT ![p] = state]
                 /\ Resume(p, "exec", "none")
                 /\ UNCHANGED <<nExec, cmdId, nSleeps, timer>>
            ELSE /\ pc' = [pc EXCEPT ![p] = "afterWait"]
                 /\ Resume(p, "exec", "none")
                 /\ UNCHANGED <<err, errState, nExec, cmdId, nSleeps, timer>>
    /\ UNCHANGED sleepInput
    /\ UNCHANGED <<QueryExecutionId, sleepMs, rejected, firstPage, locals, began, gotStart, myId, nStart,
                   nResults, nConsumer, cmdToken, pageToken, lastResp>>

\* sleep's timer fires: the loop sends the next status command.
SleepDone(p) ==
    /\ pc[p] = "sleeping"
    /\ SendGetQueryExecution(p)
    /\ Resume(p, "timer", "exec")
    /\ UNCHANGED polling
    /\ UNCHANGED <<QueryExecutionId, sleepMs, rejected, firstPage, err, errState, locals, began, gotStart, myId,
                   nStart, nResults, nConsumer, nSleeps, cmdToken, lastState, pageToken, lastResp>>

\* processQuery resumes after waitForSuccessfulResult: getResultsInBatches
\* asks for the first page.
AfterWait(p) ==
    /\ pc[p] = "afterWait"
    /\ SendGetQueryResults(p, Undefined, TRUE)
    /\ Resume(p, "none", "results")
    /\ UNCHANGED polling
    /\ UNCHANGED <<QueryExecutionId, sleepMs, rejected, firstPage, err, errState, fieldNames, Data, NextToken,
                   began, gotStart, myId, nStart, nExec, nConsumer, nSleeps, lastState, pageToken,
                   lastResp>>

\* getResultsInBatches calling the consumer without awaiting it: the next page
\* is asked for while the consumer call is pending.
PageResponse_NoAwait(p, resp) ==
    /\ pc[p] = "awaitPage"
    /\ resp.NextToken # Undefined => nResults[p] < MaxPages
    /\ lastResp' = [lastResp EXCEPT ![p] = resp]
    /\ firstPage' = [firstPage EXCEPT ![p] = IF isFirstQuery[p] THEN ShapeOf(resp) ELSE @]
    /\ pageToken' = [pageToken EXCEPT ![p] = resp.NextToken]
    /\ IF ResultsThrows(resp.httpStatusCode)
       THEN /\ Throw(p, "retrieval")
            /\ Resume(p, "results", "none")
            /\ UNCHANGED <<fieldNames, Data, NextToken, nConsumer, nResults, cmdId, cmdToken,
                           isFirstQuery>>
       ELSE LET out == getResults(resp, isFirstQuery[p], fieldNames[p])
            IN  IF out.threw
                THEN /\ Throw(p, "schema")
                     /\ Resume(p, "results", "none")
                     /\ UNCHANGED <<fieldNames, Data, NextToken, nConsumer, nResults, cmdId,
                                    cmdToken, isFirstQuery>>
                ELSE /\ fieldNames' = [fieldNames EXCEPT ![p] =
                                          IF isFirstQuery[p] THEN out.fieldNames ELSE @]
                     /\ Data' = [Data EXCEPT ![p] = out.Data]
                     /\ NextToken' = [NextToken EXCEPT ![p] = out.NextToken]
                     /\ nConsumer' = [nConsumer EXCEPT ![p] = @ + 1]
                     /\ UNCHANGED err
                     /\ IF MorePages(out.NextToken)
                        THEN /\ SendGetQueryResults(p, out.NextToken, FALSE)
                             /\ Resume(p, "none", "consumer")
                        ELSE /\ pc' = [pc EXCEPT ![p] = "awaitConsumer"]
                             /\ Resume(p, "results", "consumer")
                             /\ UNCHANGED <<nResults, cmdId, cmdToken, isFirstQuery>>
    /\ UNCHANGED <<QueryExecutionId, sleepMs, rejected, errState, began, gotStart, myId,
                   nStart, nExec, nSleeps, lastState, polling>>

\* getResults resumes with a GetQueryResults answer; getResultsInBatches
\* takes what it returns and calls the consumer with the batch.
PageResponse(p, resp) ==
    /\ pc[p] = "awaitPage"
    /\ resp.NextToken # Undefined => nResults[p] < MaxPages
    /\ lastResp' = [lastResp EXCEPT ![p] = resp]
    /\ firstPage' = [firstPage EXCEPT ![p] = IF isFirstQuery[p] THEN ShapeOf(resp) ELSE @]
    /\ pageToken' = [pageToken EXCEPT ![p] = resp.NextToken]
    /\ IF ResultsThrows(resp.httpStatusCode)
       THEN /\ Throw(p, "retrieval")
            /\ Resume(p, "results", "none")
            /\ UNCHANGED <<fieldNames, Data, NextToken, nConsumer>>
       ELSE LET out == getResults(resp, isFirstQuery[p], fieldNames[p])
            IN  IF out.threw
                THEN /\ Throw(p, "schema")
                     /\ Resume(p, "results", "none")
                     /\ UNCHANGED <<fieldNames, Data, NextToken, nConsumer>>
                ELSE /\ fieldNames' = [fieldNames EXCEPT ![p] =
                                          IF isFirstQuery[p] THEN out.fieldNames ELSE @]
                     /\ Data' = [Data EXCEPT ![p] = out.Data]
                     /\ NextToken' = [NextToken EXCEPT ![p] = out.NextToken]
                     /\ nConsumer' = [nConsumer EXCEPT ![p] = @ + 1]
                     /\ pc' = [pc EXCEPT ![p] = "awaitConsumer"]
                     /\ Resume(p, "results", "consumer")
                     /\ UNCHANGED err
    /\ UNCHANGED <<QueryExecutionId, sleepMs, rejected, errState, isFirstQuery, began, gotStart, myId,
                   nStart, nExec, nResults, nSleeps, cmdId, cmdToken, lastState, polling>>

\* getResultsInBatches catching the consumer's rejection and going on with the
\* next page.
ConsumerReturn_Swallows(p, ok) ==
    /\ pc[p] = "awaitConsumer"
    /\ rejected' = [rejected EXCEPT ![p] = ~ok]
    /\ IF MorePages(NextToken[p])
       THEN /\ SendGetQueryResults(p, NextToken[p], FALSE)
            /\ Resume(p, "consumer", "results")
            /\ UNCHANGED err
       ELSE /\ pc' = [pc EXCEPT ![p] = "done"]
            /\ Resume(p, "consumer", "none")
            /\ UNCHANGED <<err, nResults, cmdId, cmdToken, isFirstQuery>>
    /\ UNCHANGED polling
    /\ Data' = [Data EXCEPT ![p] = <<>>]
    /\ lastResp' = [lastResp EXCEPT ![p] = NoResponse]
    /\ UNCHANGED <<QueryExecutionId, sleepMs, firstPage, errState, fieldNames, NextToken, began,
                   gotStart, myId, nStart, nExec, nConsumer, nSleeps, lastState, pageToken>>

\* getResultsInBatches resumes after the consumer call: the next page, or the
\* end.  The batch is the consumer's from here on; Data holds it no longer.
ConsumerReturn(p, ok) ==
    /\ pc[p] = "awaitConsumer"
    /\ rejected' = [rejected EXCEPT ![p] = ~ok]
    /\ IF ~ok
       THEN /\ Throw(p, "consumer")
            /\ Resume(p, "consumer", "none")
            /\ UNCHANGED <<nResults, cmdId, cmdToken, isFirstQuery>>
       ELSE IF MorePages(NextToken[p])
            THEN /\ SendGetQueryResults(p, NextToken[p], FALSE)
                 /\ Resume(p, "consumer", "results")
                 /\ UNCHANGED err
            ELSE /\ pc' = [pc EXCEPT ![p] = "done"]
                 /\ Resume(p, "consumer", "none")
                 /\ UNCHANGED <<err, nResults, cmdId, cmdToken, isFirstQuery>>
    /\ UNCHANGED polling
    /\ Data' = [Data EXCEPT ![p] = <<>>]
    /\ lastResp' = [lastResp EXCEPT ![p] = NoResponse]
    /\ UNCHANGED <<QueryExecutionId, sleepMs, firstPage, errState, fieldNames, NextToken, began,
                   gotStart, myId, nStart, nExec, nConsumer, nSleeps, lastState, pageToken>>

\* Two invocations on the instance, every handle, a few states and pages.
Next ==
    \E p \in Invocations :
        \/ Invoke(p)
        \/ \E id \in Handles : StartResponse(p, id)
        \/ AfterStart(p)
        \/ \E state \in SampleStates : StateResponse(p, state)
        \/ SleepDone(p)
        \/ AfterWait(p)
        \/ /\ pc[p] = "awaitPage"
           /\ \E resp \in SampleResponses(isFirstQuery[p]) : PageResponse(p, resp)
        \/ \E ok \in BOOLEAN : ConsumerReturn(p, ok)

Spec == Init /\ [][Next]_vars

\* One invocation, every handle and state, a few pages.
NextRun ==
    \/ Invoke("first")
    \/ \E id \in Handles : StartResponse("first", id)
    \/ AfterStart("first")
    \/ \E state \in States : StateResponse("first", state)
    \/ SleepDone("first")
    \/ AfterWait("first")
    \/ /\ pc["first"] = "awaitPage"
       /\ \E resp \in SampleResponses(isFirstQuery["first"]) : PageResponse("first", resp)
    \/ \E ok \in BOOLEAN : ConsumerReturn("first", ok)

SpecRun == Init /\ [][NextRun]_vars

\* One invocation in which every operation awaited ends: each command is
\* answered, the delay's timer fires, the consumer call returns, and a resumed
\* continuation runs.  The answers stop being QUEUED or RUNNING after MaxPolls
\* of them and stop carrying a NextToken at page MaxPages.
Fairness ==
    /\ WF_vars(\E id \in Handles : StartResponse("first", id))
    /\ WF_vars(AfterStart("first"))
    /\ WF_vars(\E state \in States : StateResponse("first", state))
    /\ WF_vars(SleepDone("first"))
    /\ WF_vars(AfterWait("first"))
    /\ WF_vars(/\ pc["first"] = "awaitPage"
               /\ \E resp \in SampleResponses(isFirstQuery["first"]) : PageResponse("first", resp))
    /\ WF_vars(\E ok \in BOOLEAN : ConsumerReturn("first", ok))

SpecLive == Init /\ [][NextRun]_vars /\ Fairness

\* One invocation whose query succeeds at once, every page within the bounds.
NextPages ==
    \/ Invoke("first")
    \/ StartResponse("first", "q1")
    \/ AfterStart("first")
    \/ StateResponse("first", "SUCCEEDED")
    \/ AfterWait("first")
    \/ /\ pc["first"] = "awaitPage"
       /\ \E resp \in AllResponses(isFirstQuery["first"]) : PageResponse("first", resp)
    \/ \E ok \in BOOLEAN : ConsumerReturn("first", ok)

SpecPages == Init /\ [][NextPages]_vars

\* ------------------------------------------------------------------ claims

Sum(f) == f["first"] + f["second"]

\* The service commands and consumer calls an invocation has made.
Silent(p) == nStart[p] = 0 /\ nExec[p] = 0 /\ nResults[p] = 0 /\ nConsumer[p] = 0

\* C1: an invocation called after another one has finished fails with the
\* reuse error, sends no command and never calls the consumer.
C1_ReuseAfterFinished ==
    \A p \in Invocations :
        began[p] = "afterFinished" => (pc[p] = "failed" /\ err[p] = "reuse" /\ Silent(p))

\* C2: an invocation called while another one is in flight fails with the
\* reuse error, and at most one StartQueryExecution command is ever sent.
C2_AtMostOneStart ==
    /\ \A p \in Invocations :
           began[p] = "overlapping" => (pc[p] = "failed" /\ err[p] = "reuse")
    /\ Sum(nStart) <= 1

\* C3: an invocation whose StartQueryExecution answer carries no
\* QueryExecutionId fails, having sent no GetQueryExecution and no
\* GetQueryResults command and never called the consumer.
C3_NoHandleNoCalls ==
    \A p \in Invocations :
        (gotStart[p] /\ myId[p] = Undefined) =>
            (pc[p] = "failed" /\ nExec[p] = 0 /\ nResults[p] = 0 /\ nConsumer[p] = 0)

C3_Witness ==
    \E p \in Invocations :
        gotStart[p] /\ myId[p] = Undefined /\ pc[p] = "failed" /\ nStart[p] = 1

\* C4 as stated: an absent handle and an empty-string handle both make
\* submission fail, with no status poll issued.
C4_EmptyHandleFails ==
    \A p \in Invocations :
        (gotStart[p] /\ myId[p] \in {Undefined, ""}) =>
            (err[p] = "submission" /\ nExec[p] = 0)

\* C4 as amended: once the StartQueryExecution answer has arrived, submission
\* has failed with the submission error exactly when the answer's handle is
\* absent, and then no status poll is issued; an empty-string handle is a
\* handle, for which submission does not fail.
C4_AbsentHandleFails ==
    \A p \in Invocations :
        gotStart[p] =>
            /\ (err[p] = "submission") <=> (myId[p] = Undefined)
            /\ myId[p] = Undefined => (pc[p] = "failed" /\ nExec[p] = 0)

C4_Witness ==
    \E p \in Invocations :
        gotStart[p] /\ myId[p] = "" /\ err[p] # "submission" /\ nExec[p] >= 1 /\ cmdId[p] = ""

\* C5: when the terminal state polling observes is not SUCCEEDED, the
\* invocation fails with the error that embeds that state, sends no
\* GetQueryResults command and never calls the consumer.
C5_UnsuccessfulStateFails ==
    \A p \in Invocations :
        lastState[p] \notin {NoState, "QUEUED", "RUNNING", "SUCCEEDED"} =>
            /\ pc[p] = "failed"
            /\ err[p] = "state"
            /\ errState[p] = lastState[p]
            /\ nResults[p] = 0
            /\ nConsumer[p] = 0

C5_Witness ==
    \E p \in Invocations :
        lastState[p] = Undefined /\ err[p] = "state" /\ errState[p] = Undefined /\ nExec[p] = 2

\* C6: when the first GetQueryResults answer has an HTTP status other than
\* 200, the invocation fails, the consumer is never called and no further
\* GetQueryResults command is sent.
C6_FirstPageNotOk ==
    \A p \in Invocations :
        (isFirstQuery[p] /\ lastResp[p].httpStatusCode \notin {0, 200}) =>
            /\ pc[p] = "failed"
            /\ err[p] = "retrieval"
            /\ nConsumer[p] = 0
            /\ nResults[p] = 1

C6_Witness ==
    \E p \in Invocations :
        /\ lastState[p] = "SUCCEEDED"
        /\ nResults[p] = 1
        /\ lastResp[p].httpStatusCode = 500
        /\ err[p] = "retrieval"

\* The records of a page: one for each data row, in row order; a row's record
\* holds under each field name the value of the last cell that has that name.
NameAt(names, i) == IF i \in DOMAIN names THEN names[i] ELSE Undefined
RecordOf(row, names) ==
    IF row.hasData
    THEN {<<NameAt(names, i), row.Data[i]>> : i \in {j \in 1..Len(row.Data) :
                \A k \in (j + 1)..Len(row.Data) : NameAt(names, k) # NameAt(names, j)}}
    ELSE {}
PageRecords(resp, k, names) ==
    LET skip == IF k = 1 /\ Len(resp.Rows) > 0 THEN 1 ELSE 0
    IN  [i \in 1..(Len(resp.Rows) - skip) |-> RecordOf(resp.Rows[i + skip], names)]

\* C7: the consumer is called once for each page fetched and converted, the
\* k-th call with the records of the k-th page, so that a run of N pages
\* ends after N calls that delivered the pages' records in page order.
C7_OncePerPage ==
    \A p \in Invocations :
        /\ pc[p] = "awaitPage" => nConsumer[p] = nResults[p] - 1
        /\ pc[p] = "awaitConsumer" =>
               /\ nConsumer[p] = nResults[p]
               /\ Data[p] = PageRecords(lastResp[p], nResults[p], fieldNames[p])
        /\ pc[p] = "done" => (nResults[p] >= 1 /\ nConsumer[p] = nResults[p])

C7_Witness ==
    \E p \in Invocations : pc[p] = "done" /\ nResults[p] = MaxPages /\ nConsumer[p] = MaxPages

\* What an invocation has sent and called so far stays as it is.
Quiet(p) ==
    /\ nStart'[p] = nStart[p]
    /\ nExec'[p] = nExec[p]
    /\ nResults'[p] = nResults[p]
    /\ nConsumer'[p] = nConsumer[p]

\* C8: the first GetQueryResults command carries no NextToken, every later
\* one the NextToken of the page before it; retrieval ends exactly when a
\* page carries no NextToken, and once that page's batch is consumed the
\* invocation sends nothing more.
C8_TokenChain ==
    /\ [](\A p \in Invocations :
            /\ (pc[p] = "awaitPage" /\ nResults[p] = 1) => cmdToken[p] = Undefined
            /\ (pc[p] = "awaitPage" /\ nResults[p] > 1) =>
                   (pageToken[p] # Undefined /\ cmdToken[p] = pageToken[p])
            /\ pc[p] = "done" => pageToken[p] = Undefined)
    /\ [][\A p \in Invocations :
            /\ (pc[p] = "awaitConsumer" /\ pageToken[p] = Undefined) => Quiet(p)
            /\ (pc[p] = "awaitConsumer" /\ pageToken[p] # Undefined /\ pc'[p] = "awaitPage") =>
                   (nResults'[p] = nResults[p] + 1 /\ cmdToken'[p] = pageToken[p])
            /\ pc[p] = "done" => Quiet(p)]_vars

C8_Witness ==
    \E p \in Invocations :
        pc[p] = "awaitPage" /\ nResults[p] = 2 /\ cmdToken[p] = "t2" /\ pageToken[p] = "t2"

\* A data row of the answer has more values than there are field names.
RowTooLong(resp, k, n) ==
    \E i \in 1..Len(resp.Rows) :
        /\ (k = 1 => i > 1)
        /\ resp.Rows[i].hasData
        /\ Len(resp.Rows[i].Data) > n
HeaderLen(resp) ==
    IF Len(resp.Rows) > 0 /\ resp.Rows[1].hasData THEN Len(resp.Rows[1].Data) ELSE 0

\* C9: an invocation that fails on page k (an answer that is not 200, or a
\* row with more values than field names) has called the consumer k-1 times,
\* does not call it for page k and sends nothing after the failure.
C9_NoDeliveryAfterFailure ==
    /\ [](\A p \in Invocations :
            /\ err[p] \in {"retrieval", "schema"} =>
                   (pc[p] = "failed" /\ nConsumer[p] = nResults[p] - 1)
            /\ (\/ lastResp[p].httpStatusCode \notin {0, 200}
                \/ RowTooLong(lastResp[p], nResults[p],
                              IF nResults[p] = 1 THEN HeaderLen(lastResp[p])
                              ELSE Len(fieldNames[p]))) =>
                   (/\ pc[p] = "failed"
                    /\ err[p] \in {"retrieval", "schema"}
                    /\ nConsumer[p] = nResults[p] - 1))
    /\ [][\A p \in Invocations : pc[p] = "failed" => (Quiet(p) /\ pc'[p] = "failed")]_vars

C9_Witness ==
    \E p \in Invocations :
        err[p] = "schema" /\ nResults[p] = 2 /\ nConsumer[p] = 1 /\ pc[p] = "failed"

\* C10: every header cell gives a field name, its text or col<i>, so a first
\* page whose data rows have no more values than the header row has cells is
\* converted without the schema error, whatever the header cells hold.
C10_EveryColumnNamed ==
    \A p \in Invocations :
        (isFirstQuery[p] /\ lastResp[p].httpStatusCode = 200) =>
            /\ pc[p] = "awaitConsumer" =>
                   /\ Len(fieldNames[p]) = HeaderLen(lastResp[p])
                   /\ \A i \in 1..Len(fieldNames[p]) :
                          fieldNames[p][i] =
                              IF lastResp[p].Rows[1].Data[i] = Undefined
                              THEN "col" \o Digits[i]
                              ELSE lastResp[p].Rows[1].Data[i]
            /\ ~RowTooLong(lastResp[p], 1, HeaderLen(lastResp[p])) => err[p] # "schema"

\* The number of field names in force for the answer being handled.
NamesInForce(p) ==
    IF nResults[p] = 1 THEN HeaderLen(lastResp[p]) ELSE Len(fieldNames[p])

\* C11: on any page, a data row with more values than there are field names
\* fails the run with the 'header row is not long enough' error, and the
\* consumer is not called for that page.
C11_RowLongerThanHeader ==
    \A p \in Invocations :
        (/\ lastResp[p].httpStatusCode = 200
         /\ RowTooLong(lastResp[p], nResults[p], NamesInForce(p))) =>
            /\ pc[p] = "failed"
            /\ err[p] = "schema"
            /\ nConsumer[p] = nResults[p] - 1

C11_Witness ==
    \E p \in Invocations :
        /\ nResults[p] = 2
        /\ Len(fieldNames[p]) = 1
        /\ lastResp[p].httpStatusCode = 200
        /\ RowTooLong(lastResp[p], 2, 1)
        /\ err[p] = "schema"

\* The answer being handled holds no data row.
NoDataRows(resp, k) ==
    \/ ~resp.hasRows
    \/ Len(resp.Rows) = 0
    \/ (k = 1 /\ Len(resp.Rows) = 1)

\* C12: a page fetched with status 200 that holds no data row (no result set,
\* no rows, a header row alone, a later page without rows) is still handed to
\* the consumer, once, as an empty sequence.
C12_EmptyBatchDelivered ==
    \A p \in Invocations :
        (lastResp[p].httpStatusCode = 200 /\ NoDataRows(lastResp[p], nResults[p])) =>
            /\ pc[p] = "awaitConsumer"
            /\ Data[p] = <<>>
            /\ nConsumer[p] = nResults[p]

C12_Witness ==
    \E p \in Invocations :
        /\ pc[p] = "awaitConsumer"
        /\ nResults[p] = 2
        /\ nConsumer[p] = 2
        /\ ~lastResp[p].hasRows
        /\ Data[p] = <<>>

\* The field names the header row of a first page gives.
NamesOf(resp) ==
    [i \in 1..HeaderLen(resp) |->
        IF resp.Rows[1].Data[i] = Undefined THEN "col" \o Digits[i] ELSE resp.Rows[1].Data[i]]

\* C13: the field names are set once, by the first page's answer, from its
\* row 0 and before any batch is delivered; no later step changes them, and
\* the rows of every later page are converted with exactly that sequence.
C13_FieldNamesFixed ==
    /\ [](\A p \in Invocations :
            /\ nResults[p] = 0 => fieldNames[p] = <<>>
            /\ (pc[p] = "awaitConsumer" /\ nResults[p] = 1) =>
                   fieldNames[p] = NamesOf(lastResp[p])
            /\ (pc[p] = "awaitConsumer" /\ nResults[p] > 1) =>
                   Data[p] = PageRecords(lastResp[p], nResults[p], fieldNames[p]))
    /\ [][\A p \in Invocations :
            fieldNames'[p] # fieldNames[p] =>
                /\ pc[p] = "awaitPage"
                /\ nResults[p] = 1
                /\ nConsumer[p] = 0
                /\ fieldNames'[p] = NamesOf(lastResp'[p])]_vars

C13_Witness ==
    \E p \in Invocations :
        /\ pc[p] = "awaitConsumer"
        /\ nResults[p] = 2
        /\ fieldNames[p] = <<"col0", "a">>
        /\ Len(Data[p]) = 1
        /\ Data[p][1] = {<<"col0", "x">>, <<"a", Undefined>>}

\* C14: status is fetched again while and only while the last observed state
\* is QUEUED or RUNNING: with n such observations made, n + 1 GetQueryExecution
\* commands have been sent while an answer is awaited and once a terminal
\* state has been observed (none after it), n while the delay runs; an
\* invocation whose last observation is QUEUED or RUNNING is still polling.
C14_PollWhilePending ==
    \A p \in Invocations :
        /\ pc[p] = "awaitState" => nExec[p] = nPending[p] + 1
        /\ pc[p] = "sleeping" =>
               (nExec[p] = nPending[p] /\ lastState[p] \in {"QUEUED", "RUNNING"})
        /\ lastState[p] \in {"QUEUED", "RUNNING"} => pc[p] \in {"awaitState", "sleeping"}
        /\ (lastState[p] # NoState /\ lastState[p] \notin {"QUEUED", "RUNNING"}) =>
               (nExec[p] = nPending[p] + 1 /\ pc[p] \notin {"awaitState", "sleeping"})

C14_Witness ==
    \E p \in Invocations :
        /\ nPending[p] = 1 /\ nExec[p] = 2
        /\ lastState[p] = "CANCELLED" /\ pc[p] = "failed"

\* C15: an invocation has sent no GetQueryExecution command before its
\* StartQueryExecution answer arrived with a handle, and no GetQueryResults
\* command before a status answer with state SUCCEEDED; once it has sent a
\* GetQueryResults command it sends no StartQueryExecution and no
\* GetQueryExecution command any more.
C15_StageOrder ==
    /\ [](\A p \in Invocations :
            /\ nExec[p] > 0 => (gotStart[p] /\ myId[p] # Undefined)
            /\ nResults[p] > 0 => (nExec[p] > 0 /\ lastState[p] = "SUCCEEDED"))
    /\ [][\A p \in Invocations :
            nResults[p] > 0 => (nStart'[p] = nStart[p] /\ nExec'[p] = nExec[p])]_vars

C15_Witness ==
    \E p \in Invocations :
        /\ nStart[p] = 1 /\ nExec[p] = 2 /\ nResults[p] = 2
        /\ lastState[p] = "SUCCEEDED" /\ pc[p] = "done"

\* The operations an invocation has begun and not yet seen end.
Pending(p) ==
    outstanding[p]["start"] + outstanding[p]["exec"] + outstanding[p]["timer"]
        + outstanding[p]["results"] + outstanding[p]["consumer"]

\* The kind of operation the invocation is suspended on, "none" between awaits.
AwaitedKind(p) ==
    CASE pc[p] = "awaitStart" -> "start"
      [] pc[p] = "awaitState" -> "exec"
      [] pc[p] = "sleeping" -> "timer"
      [] pc[p] = "awaitPage" -> "results"
      [] pc[p] = "awaitConsumer" -> "consumer"
      [] OTHER -> "none"

\* C16: an invocation has at most one operation outstanding at any moment, the
\* one it is suspended on: never two commands of a kind in flight, never two
\* consumer calls pending, and no GetQueryResults command in flight while a
\* consumer call is pending.
C16_OneOutstanding ==
    \A p \in Invocations :
        /\ Pending(p) <= 1
        /\ \A k \in Kinds : outstanding[p][k] = (IF k = AwaitedKind(p) THEN 1 ELSE 0)
        /\ ~(outstanding[p]["results"] > 0 /\ outstanding[p]["consumer"] > 0)

C16_Witness ==
    \E p \in Invocations :
        /\ pc[p] = "awaitPage" /\ nResults[p] = 2 /\ nConsumer[p] = 1
        /\ outstanding[p]["results"] = 1 /\ outstanding[p]["consumer"] = 0

\* C17: every GetQueryExecution and GetQueryResults command an invocation
\* sends carries the QueryExecutionId of that invocation's own
\* StartQueryExecution answer, also when another invocation is started on the
\* instance while the first is suspended.
C17_HandleOwnership ==
    \A p \in Invocations :
        (nExec[p] + nResults[p] > 0) => cmdId[p] = myId[p]

\* The data rows of the k-th answer: all its rows but, on the first, row 0.
DataRowsOf(resp, k) == IF k = 1 /\ Len(resp.Rows) > 0 THEN Tail(resp.Rows) ELSE resp.Rows

\* C18: a page gives one record for each of its data rows, in row order, row
\* 0 being dropped on the first page only; a record holds the value at each
\* position of its row under the field name at that position and nothing
\* else, and a page whose data rows all have fewer values than there are
\* field names is converted without error.
C18_RecordPerRow ==
    \A p \in Invocations :
        lastResp[p].httpStatusCode = 200 =>
            /\ pc[p] = "awaitConsumer" =>
                   LET rows == DataRowsOf(lastResp[p], nResults[p])
                   IN  /\ Len(Data[p]) = Len(rows)
                       /\ \A k \in 1..Len(rows) :
                              LET n == IF rows[k].hasData THEN Len(rows[k].Data) ELSE 0
                              IN  /\ \A i \in 1..n :
                                         <<NameAt(fieldNames[p], i), rows[k].Data[i]>> \in Data[p][k]
                                  /\ \A kv \in Data[p][k] :
                                         \E i \in 1..n : kv[1] = NameAt(fieldNames[p], i)
            /\ ~RowTooLong(lastResp[p], nResults[p], NamesInForce(p) - 1) => err[p] # "schema"

\* C19: sleepMs is 500 when the option is omitted and the option's value
\* otherwise; a delay of sleepMs is scheduled after each QUEUED or RUNNING
\* observation, before the next status command, and nowhere else: none before
\* the first status command, none after a terminal observation, and none at
\* all when sleepMs is 0.
C19_DelayBetweenPolls ==
    /\ sleepMs = (IF sleepInput.given THEN sleepInput.ms ELSE 500)
    /\ \A p \in Invocations :
           /\ sleepMs = 0 => (nSleeps[p] = 0 /\ timer[p] = NoTimer /\ pc[p] # "sleeping")
           /\ sleepMs > 0 =>
                  /\ nSleeps[p] = nPending[p]
                  /\ nSleeps[p] > 0 => timer[p] = sleepMs
                  /\ pc[p] = "awaitState" => nExec[p] = nSleeps[p] + 1
                  /\ pc[p] = "sleeping" => nExec[p] = nSleeps[p]
           /\ (nExec[p] <= 1 /\ pc[p] # "sleeping") => nSleeps[p] = 0
           /\ (lastState[p] # NoState /\ lastState[p] \notin {"QUEUED", "RUNNING"}) =>
                  (pc[p] # "sleeping" /\ (sleepMs > 0 => nSleeps[p] = nExec[p] - 1))

C19_Witness ==
    \E p \in Invocations :
        /\ ~sleepInput.given /\ sleepMs = 500
        /\ nSleeps[p] = 1 /\ timer[p] = 500 /\ nExec[p] = 2
        /\ lastState[p] = "SUCCEEDED" /\ pc[p] = "afterWait"

\* C20: when every operation awaited ends, the answers eventually report a
\* state other than QUEUED and RUNNING and eventually a page without a
\* NextToken, an invocation that has begun eventually finishes, in success or
\* in error.  There is no bound on the polls: whatever the number of commands
\* sent, a QUEUED or RUNNING answer makes the invocation poll again, and while
\* that is the last answer the invocation has neither finished nor failed.
C20_Termination ==
    /\ InFlight("first") ~> Finished("first")
    /\ [](\A p \in Invocations :
            lastState[p] \in {"QUEUED", "RUNNING"} => (~Finished(p) /\ err[p] = "none"))
    /\ [][\A p \in Invocations :
            nPending'[p] > nPending[p] =>
                /\ pc'[p] \in {"awaitState", "sleeping"}
                /\ pc'[p] = "awaitState" => nExec'[p] = nExec[p] + 1]_vars

C20_Witness ==
    /\ pc["first"] = "done"
    /\ nPending["first"] = MaxPolls
    /\ nExec["first"] = MaxPolls + 1
    /\ nResults["first"] = MaxPages

\* C21: when the consumer rejects on the batch of page k, the invocation
\* fails with the consumer's error having sent k GetQueryResults commands and
\* made k consumer calls, also when page k carried a NextToken; after that it
\* sends no command and does not call the consumer again.
C21_ConsumerRejects ==
    /\ [](\A p \in Invocations :
            /\ rejected[p] =>
                   (pc[p] = "failed" /\ err[p] = "consumer" /\ nConsumer[p] = nResults[p])
            /\ err[p] = "consumer" => rejected[p])
    /\ [][\A p \in Invocations :
            /\ rejected'[p] /\ ~rejected[p] => (pc[p] = "awaitConsumer" /\ Quiet(p))
            /\ rejected[p] => (rejected'[p] /\ Quiet(p) /\ pc'[p] = "failed")]_vars

C21_Witness ==
    \E p \in Invocations :
        /\ rejected[p] /\ err[p] = "consumer" /\ pc[p] = "failed"
        /\ pageToken[p] # Undefined /\ NextToken[p] # Undefined
        /\ nResults[p] = 1 /\ nConsumer[p] = 1

\* The first answer of the invocation had no rows, or no result set.
FirstPageEmpty(p) == firstPage[p] \in {"noResultSet", "noRows"}

\* C22: when the first page has no rows or no result set, the field names
\* are the empty sequence and the consumer is called with an empty batch; the
\* field names stay empty on every later page, so a later page holding a row
\* with at least one value fails the run with the 'header row is not long
\* enough' error and is not delivered.
C22_EmptyFirstPage ==
    /\ [](\A p \in Invocations :
            (FirstPageEmpty(p) /\ lastResp[p].httpStatusCode = 200) =>
                /\ fieldNames[p] = <<>>
                /\ nResults[p] = 1 =>
                       (pc[p] = "awaitConsumer" /\ Data[p] = <<>> /\ nConsumer[p] = 1)
                /\ (nResults[p] > 1 /\ RowTooLong(lastResp[p], nResults[p], 0)) =>
                       /\ pc[p] = "failed" /\ err[p] = "schema"
                       /\ nConsumer[p] = nResults[p] - 1)
    /\ [][\A p \in Invocations :
            (FirstPageEmpty(p) /\ nConsumer[p] >= 1) =>
                (fieldNames[p] = <<>> /\ fieldNames'[p] = <<>>)]_vars

C22_Witness ==
    \E p \in Invocations :
        /\ firstPage[p] = "noRows" /\ fieldNames[p] = <<>>
        /\ nResults[p] = 2 /\ nConsumer[p] = 1
        /\ RowTooLong(lastResp[p], 2, 0)
        /\ pc[p] = "failed" /\ err[p] = "schema"

====
